---------------------------- MODULE Spec2Model ----------------------------
(***************************************************************************)
(* A model of the DarkHook relayer agent (src/relayer/relayer.js): the     *)
(* RelayerAgent class with its monitor loop, proof validation, timing      *)
(* gate, execution and pending queue.                                      *)
(*                                                                         *)
(* Units.  TLC's integers are 32 bits wide, the program's amounts are      *)
(* BigInts.  The model counts amountIn in whole USDC (10^6 base units, so  *)
(* the threshold BigInt(10000 * 10**6) is 10000), fee prices in whole gwei *)
(* (the program compares Number(gasPrice) / 1e9 with the ceiling) and      *)
(* totalGasSpent in gas * gwei.  Time is in seconds, as                    *)
(* Math.floor(Date.now() / 1000).                                          *)
(*                                                                         *)
(* Scheduling.  The agent is JavaScript: code between two awaits runs      *)
(* without interruption.  Every action below is the resumption of one loop *)
(* after an await (or the call that starts it) up to its next await.       *)
(***************************************************************************)
EXTENDS Integers, Sequences, FiniteSets, TLC

(***************************************************************************)
(* CONFIG and the literals of the code                                     *)
(***************************************************************************)
TRUSTED_TEE_SIGNER ==
    << "0", "x", "7", "E", "5", "F", "4", "5", "5", "2", "0", "9", "1", "A",
       "6", "9", "1", "2", "5", "d", "5", "D", "f", "C", "b", "7", "b", "8",
       "C", "2", "6", "5", "9", "0", "2", "9", "3", "9", "5", "B", "d", "f" >>

POLL_INTERVAL_MS == 3000

MAX_GAS_PRICE_GWEI == 50

GAS_BUFFER_PERCENT == 20

MEV_PROTECTION_ENABLED == TRUE

\* if (proofAge > 3600)
MAX_PROOF_AGE == 3600

\* proof.teeSignature.length < 130
MIN_SIGNATURE_LENGTH == 130

\* BigInt(10000 * 10**6) base units, in whole USDC
LARGE_TRADE_USDC == 10000

\* const gasEstimate = BigInt(250000)
GAS_ESTIMATE == 250000

(***************************************************************************)
(* Bounds of the model                                                     *)
(***************************************************************************)
\* candidates the proof source returns in one fetch
MaxFetch == 2

\* candidates the proof source returns over the whole run
MaxOffered == 3

\* jumps of the clock (see Stall) over the whole run
MaxStalls == 1

\* candidates the proof source returns while two loops overlap (SpecOverlap)
MaxOverlapOffered == 2

\* candidates the proof source returns in a run checked for progress
MaxFairOffered == 2

(***************************************************************************)
(* JavaScript values of a proof's fields                                   *)
(***************************************************************************)
Str(s) == [t |-> "string", v |-> s]

Undefined == [t |-> "undefined", v |-> << >>]

\* a numeric string such as '1000000000', by the integer BigInt() gives
Num(n) == [t |-> "numeric", v |-> n]

\* a string BigInt() throws a SyntaxError on
NotNumeric == [t |-> "text", v |-> 0]

\* 'c'.repeat(n)
Repeat(c, n) == [i \in 1..n |-> c]

\* String.prototype.toLowerCase on one character of an address
LowerChar(c) ==
    CASE c = "A" -> "a"
      [] c = "B" -> "b"
      [] c = "C" -> "c"
      [] c = "D" -> "d"
      [] c = "E" -> "e"
      [] c = "F" -> "f"
      [] c = "X" -> "x"
      [] OTHER -> c

ToLowerCase(s) == [i \in 1..Len(s) |-> LowerChar(s[i])]

UpperChar(c) ==
    CASE c = "a" -> "A"
      [] c = "b" -> "B"
      [] c = "c" -> "C"
      [] c = "d" -> "D"
      [] c = "e" -> "E"
      [] c = "f" -> "F"
      [] c = "x" -> "X"
      [] OTHER -> c

ToUpperCase(s) == [i \in 1..Len(s) |-> UpperChar(s[i])]

\* !value for a string or undefined
Falsy(x) == x.t = "undefined" \/ (x.t = "string" /\ Len(x.v) = 0)


(***************************************************************************)
(* validateProof (lines 252-292).  The result names the log line the call  *)
(* ends with; the call returns true exactly for "Accept" and throws for    *)
(* "Throw" (toLowerCase of a missing teeSigner, BigInt of a string that is *)
(* no number).                                                             *)
(***************************************************************************)
ValidateProofAgeOffByOne(proof, t) ==
    IF proof.teeSigner.t # "string" THEN "Throw"
    ELSE IF ToLowerCase(proof.teeSigner.v) # ToLowerCase(TRUSTED_TEE_SIGNER)
    THEN "UntrustedSigner"
    ELSE IF t - proof.timestamp >= MAX_PROOF_AGE THEN "Expired"
    ELSE IF Falsy(proof.teeSignature)
            \/ Len(proof.teeSignature.v) < MIN_SIGNATURE_LENGTH
    THEN "MalformedSignature"
    ELSE IF proof.amountIn.t # "numeric" \/ proof.amountOut.t # "numeric"
    THEN "Throw"
    ELSE IF proof.amountIn.v <= 0 \/ proof.amountOut.v <= 0
    THEN "InvalidAmounts"
    ELSE "Accept"

ValidateProofAmountsFirst(proof, t) ==
    IF proof.teeSigner.t # "string" THEN "Throw"
    ELSE IF ToLowerCase(proof.teeSigner.v) # ToLowerCase(TRUSTED_TEE_SIGNER)
    THEN "UntrustedSigner"
    ELSE IF proof.amountIn.t # "numeric" \/ proof.amountOut.t # "numeric"
    THEN "Throw"
    ELSE IF proof.amountIn.v <= 0 \/ proof.amountOut.v <= 0
    THEN "InvalidAmounts"
    ELSE IF t - proof.timestamp > MAX_PROOF_AGE THEN "Expired"
    ELSE IF Falsy(proof.teeSignature)
            \/ Len(proof.teeSignature.v) < MIN_SIGNATURE_LENGTH
    THEN "MalformedSignature"
    ELSE "Accept"

ValidateProof(proof, t) ==
    IF proof.teeSigner.t # "string" THEN "Throw"
    ELSE IF ToLowerCase(proof.teeSigner.v) # ToLowerCase(TRUSTED_TEE_SIGNER)
    THEN "UntrustedSigner"
    ELSE IF t - proof.timestamp > MAX_PROOF_AGE THEN "Expired"
    ELSE IF Falsy(proof.teeSignature)
            \/ Len(proof.teeSignature.v) < MIN_SIGNATURE_LENGTH
    THEN "MalformedSignature"
    ELSE IF proof.amountIn.t # "numeric" \/ proof.amountOut.t # "numeric"
    THEN "Throw"
    ELSE IF proof.amountIn.v <= 0 \/ proof.amountOut.v <= 0
    THEN "InvalidAmounts"
    ELSE "Accept"

(***************************************************************************)
(* assessMEVRisk (lines 343-355) and the decisions of                      *)
(* determineOptimalTiming (lines 302-338) once its reads have answered.    *)
(***************************************************************************)
AssessMEVRiskHighForLarge(proof) ==
    IF proof.amountIn.v > LARGE_TRADE_USDC THEN "HIGH" ELSE "LOW"

AssessMEVRisk(proof) ==
    IF proof.amountIn.v > LARGE_TRADE_USDC THEN "MEDIUM" ELSE "LOW"

GasTooHighAtCeiling(gasPriceGwei) == gasPriceGwei >= MAX_GAS_PRICE_GWEI

\* if (gasPriceGwei > CONFIG.MAX_GAS_PRICE_GWEI) return false
GasTooHigh(gasPriceGwei) == gasPriceGwei > MAX_GAS_PRICE_GWEI

\* if (CONFIG.MEV_PROTECTION_ENABLED) { ... if (mevRisk === 'HIGH') return false }
RiskTooHigh(proof, mevEnabled) == mevEnabled /\ AssessMEVRisk(proof) = "HIGH"

\* What determineOptimalTiming returns when both reads answer: the fee price
\* read and (for observability only) the block height read.
TimingDecision(proof, gasPriceGwei, currentBlock, mevEnabled) ==
    IF GasTooHigh(gasPriceGwei) THEN FALSE
    ELSE IF RiskTooHigh(proof, mevEnabled) THEN FALSE
    ELSE TRUE

GasWithBufferDividedFirst(gasEstimate) ==
    (gasEstimate \div 100) * (100 + GAS_BUFFER_PERCENT)

\* gasEstimate * BigInt(100 + CONFIG.GAS_BUFFER_PERCENT) / BigInt(100)
GasWithBuffer(gasEstimate) == (gasEstimate * (100 + GAS_BUFFER_PERCENT)) \div 100


(***************************************************************************)
(* The proof source.  Catalog maps an intentHash to the proof the source   *)
(* offers under it; a fetch returns any sequence of at most MaxFetch       *)
(* distinct proofs (mockFetchProofs returns the executionProofs of         *)
(* execution_proofs.json, or the demo proof).                              *)
(***************************************************************************)
ProofIds == {"hA", "hB", "hU", "hM", "hN"}

Catalog ==
    [id \in ProofIds |->
        CASE id = "hA" ->
               \* the demo proof of lines 226-241
               [intentHash |-> id, timestamp |-> -10,
                teeSigner |-> Str(TRUSTED_TEE_SIGNER),
                teeSignature |-> Str(<<"0", "x">> \o Repeat("d", 130)),
                amountIn |-> Num(1000), amountOut |-> Num(385),
                mevSaved |-> Num(23)]
          [] id = "hB" ->
               \* a large trade signed by the trusted signer
               [intentHash |-> id, timestamp |-> -20,
                teeSigner |-> Str(ToLowerCase(TRUSTED_TEE_SIGNER)),
                teeSignature |-> Str(<<"0", "x">> \o Repeat("d", 130)),
                amountIn |-> Num(20000), amountOut |-> Num(7700),
                mevSaved |-> Num(5)]
          [] id = "hM" ->
               \* a malformed entry of execution_proofs.json: no teeSigner
               [intentHash |-> id, timestamp |-> -10,
                teeSigner |-> Undefined,
                teeSignature |-> Str(<<"0", "x">> \o Repeat("d", 130)),
                amountIn |-> Num(1000), amountOut |-> Num(385),
                mevSaved |-> Num(9)]
          [] id = "hN" ->
               \* an entry of execution_proofs.json without mevSaved: it
               \* passes the four rules, BigInt(undefined) throws at line 424
               [intentHash |-> id, timestamp |-> -10,
                teeSigner |-> Str(TRUSTED_TEE_SIGNER),
                teeSignature |-> Str(<<"0", "x">> \o Repeat("d", 130)),
                amountIn |-> Num(1000), amountOut |-> Num(385),
                mevSaved |-> Undefined]
          [] OTHER ->
               \* a proof of another signer
               [intentHash |-> id, timestamp |-> -10,
                teeSigner |-> Str([TRUSTED_TEE_SIGNER EXCEPT ![42] = "0"]),
                teeSignature |-> Str(<<"0", "x">> \o Repeat("d", 130)),
                amountIn |-> Num(1000), amountOut |-> Num(385),
                mevSaved |-> Num(7)]]

RECURSIVE SeqsUpTo(_)
\* the sequences of distinct proof identifiers of length at most n
SeqsUpTo(n) ==
    IF n = 0 THEN {<< >>}
    ELSE LET shorter == SeqsUpTo(n - 1)
         IN  shorter \cup
             {Append(q, id) : q \in {r \in shorter : Len(r) = n - 1},
                              id \in ProofIds}

NoDuplicates(q) == \A i, j \in 1..Len(q) : q[i] = q[j] => i = j

\* what a fetch can return from any execution_proofs.json
AnyOffers == {q \in SeqsUpTo(MaxFetch) : NoDuplicates(q)}

\* what a fetch returns when every entry of the file carries a mevSaved that
\* BigInt() takes (line 424)
Offers ==
    {q \in AnyOffers : \A i \in 1..Len(q) : Catalog[q[i]].mevSaved.t = "numeric"}

\* fee prices (gwei) the network answers getFeeData with
FeePrices == {10, 75}

\* block heights the network answers getBlockNumber with
BlockHeights == {100}

Loops == {1, 2}

(***************************************************************************)
(* State                                                                   *)
(***************************************************************************)
VARIABLES
    processedProofs,   \* this.processedProofs: a set of intentHash
    executionQueue,    \* this.executionQueue: a sequence of proofs
    stats,             \* this.stats
    isRunning,         \* this.isRunning
    now,               \* Math.floor(Date.now() / 1000)
    pc,                \* per monitorAndExecute call: the await it is parked at
    phase,             \* per loop: "intake" (lines 154-168) or "queue" (448-455)
    proofs,            \* per loop: the candidates of the for loop still to come
    toProcess,         \* per loop: processQueue's toProcess still to come
    cur,               \* per loop: the loop variable proof
    feeData,           \* per loop: executeProof's feeData.gasPrice
    sleepMs,           \* per loop: the argument of the sleep the loop is in, or 0
    offered,           \* candidates the proof source has returned so far
    stalls,            \* jumps of the clock so far
    lastCall,          \* history: the last call of a gate or of executeProof
    accepted,          \* history: identifiers validateProof accepted
    rejected,          \* history: identifiers validateProof rejected
    evals,             \* history: per identifier, timing decisions of this
                       \* cycle's processQueue
    cycleClean,        \* history: no fee above the ceiling, no failed read this cycle
    atPoll,            \* history: the queue and succCount when this cycle's fetch answered
    succCount,         \* history: per identifier, successful executions
    atCall,            \* history: per loop, stats and processedProofs as the
                       \* executeProof call in progress found them
    cycleRejected,     \* history: identifiers validateProof rejected this cycle
    cycleError,        \* history: this cycle ended in the catch of line 177
    stopCalled,        \* history: stop() has been called
    failedIds,         \* history: identifiers of which an execution has failed
    drainStart,        \* history: the queue as this cycle's processQueue found it
    drainLog,          \* history: the timing decisions of this cycle's processQueue
    fnIn,              \* the arguments of a direct call of a pure function
    fnOut              \* and what it returned

agentVars == <<processedProofs, executionQueue, stats, isRunning, now>>

loopVars == <<pc, phase, proofs, toProcess, cur, feeData, sleepMs>>

envVars == <<offered, stalls>>

cycleVars == <<atCall, cycleRejected, cycleError>>

histVars ==
    <<lastCall, accepted, rejected, evals, cycleClean, atPoll, succCount,
      cycleVars>>

runVars == <<stopCalled, failedIds, drainStart, drainLog>>

fnVars == <<fnIn, fnOut>>

vars == <<agentVars, loopVars, envVars, histVars, runVars, fnVars>>

NoProof == "none"

\* a record of lastCall; tick flips at every call, so that every call changes it
Call(op, id, res) ==
    [op |-> op, id |-> id, res |-> res, tick |-> 1 - lastCall.tick]


Range(q) == {q[i] : i \in 1..Len(q)}

NoInput == [f |-> "none"]

\* drainStart of a cycle in which processQueue has not been called yet
NoDrain == [called |-> FALSE, queue |-> << >>]

\* atCall of a loop that is not inside executeProof and has had no failed
\* call in its cycle
NoCall == [f |-> "none"]

NoOutput == "none"

(***************************************************************************)
(* The state after new RelayerAgent() (lines 103-130).  Loop 1 is the call *)
(* of monitorAndExecute that main() makes; a second call on the same agent *)
(* is made only under SpecOverlap.                                         *)
(***************************************************************************)
InitAgent ==
    /\ processedProofs = {}
    /\ executionQueue = << >>
    /\ stats = [proofsProcessed |-> 0, successfulExecutions |-> 0,
                failedExecutions |-> 0, totalGasSpent |-> 0,
                totalMevSaved |-> 0]
    /\ isRunning = FALSE
    /\ now = 0
    /\ phase = [l \in Loops |-> "intake"]
    /\ proofs = [l \in Loops |-> << >>]
    /\ toProcess = [l \in Loops |-> << >>]
    /\ cur = [l \in Loops |-> NoProof]
    /\ feeData = [l \in Loops |-> 0]
    /\ sleepMs = [l \in Loops |-> 0]
    /\ stalls = 0
    /\ lastCall = [op |-> "none", id |-> NoProof, res |-> "none", tick |-> 0]
    /\ accepted = {}
    /\ rejected = {}
    /\ evals = [id \in ProofIds |-> 0]
    /\ cycleClean = TRUE
    /\ atPoll = [queued |-> {}, succ |-> [id \in ProofIds |-> 0]]
    /\ succCount = [id \in ProofIds |-> 0]
    /\ atCall = [l \in Loops |-> NoCall]
    /\ cycleRejected = {}
    /\ cycleError = FALSE
    /\ stopCalled = FALSE
    /\ failedIds = {}
    /\ drainStart = NoDrain
    /\ drainLog = << >>

Init ==
    /\ InitAgent
    /\ offered = 0
    /\ pc = [l \in Loops |-> IF l = 1 THEN "idle" ELSE "off"]
    /\ fnIn = NoInput
    /\ fnOut = NoOutput

(***************************************************************************)
(* Where a loop goes on after a step.  q is this.executionQueue as the     *)
(* step leaves it.                                                         *)
(***************************************************************************)
ProcessQueueDropsExpired(l, q) ==
    LET fresh == SelectSeq(q, LAMBDA id :
                     now - Catalog[id].timestamp <= MAX_PROOF_AGE)
    IN  /\ drainStart' = [called |-> TRUE, queue |-> q]
        /\ IF fresh = << >>
           THEN /\ pc' = [pc EXCEPT ![l] = "sleep"]
                /\ sleepMs' = [sleepMs EXCEPT ![l] = POLL_INTERVAL_MS]
                /\ phase' = [phase EXCEPT ![l] = "intake"]
                /\ cur' = [cur EXCEPT ![l] = NoProof]
                /\ proofs' = [proofs EXCEPT ![l] = << >>]
                /\ toProcess' = [toProcess EXCEPT ![l] = << >>]
                /\ executionQueue' = << >>
           ELSE /\ pc' = [pc EXCEPT ![l] = "timing"]
                /\ phase' = [phase EXCEPT ![l] = "queue"]
                /\ cur' = [cur EXCEPT ![l] = Head(fresh)]
                /\ proofs' = [proofs EXCEPT ![l] = << >>]
                /\ toProcess' = [toProcess EXCEPT ![l] = Tail(fresh)]
                /\ executionQueue' = << >>
                /\ UNCHANGED sleepMs

\* processQueue up to its first await (lines 440-449), then line 175
ProcessQueue(l, q) ==
    /\ drainStart' = [called |-> TRUE, queue |-> q]
    /\ IF q = << >>
       THEN /\ pc' = [pc EXCEPT ![l] = "sleep"]
            /\ sleepMs' = [sleepMs EXCEPT ![l] = POLL_INTERVAL_MS]
            /\ phase' = [phase EXCEPT ![l] = "intake"]
            /\ cur' = [cur EXCEPT ![l] = NoProof]
            /\ proofs' = [proofs EXCEPT ![l] = << >>]
            /\ toProcess' = [toProcess EXCEPT ![l] = << >>]
            /\ executionQueue' = q
       ELSE /\ pc' = [pc EXCEPT ![l] = "timing"]
            /\ phase' = [phase EXCEPT ![l] = "queue"]
            /\ cur' = [cur EXCEPT ![l] = Head(q)]
            /\ proofs' = [proofs EXCEPT ![l] = << >>]
            /\ toProcess' = [toProcess EXCEPT ![l] = Tail(q)]
            /\ executionQueue' = << >>
            /\ UNCHANGED sleepMs

\* the for loop of lines 154-168 moves to its next candidate, or ends
NextCandidate(l, q) ==
    IF proofs[l] # << >>
    THEN /\ pc' = [pc EXCEPT ![l] = "validate"]
         /\ cur' = [cur EXCEPT ![l] = Head(proofs[l])]
         /\ proofs' = [proofs EXCEPT ![l] = Tail(proofs[l])]
         /\ executionQueue' = q
         /\ UNCHANGED <<phase, toProcess, sleepMs, drainStart>>
    ELSE ProcessQueue(l, q)

\* the for loop of lines 448-455 moves to its next queued proof, or ends
NextQueued(l, q) ==
    IF toProcess[l] # << >>
    THEN /\ pc' = [pc EXCEPT ![l] = "timing"]
         /\ cur' = [cur EXCEPT ![l] = Head(toProcess[l])]
         /\ toProcess' = [toProcess EXCEPT ![l] = Tail(toProcess[l])]
         /\ executionQueue' = q
         /\ UNCHANGED <<phase, proofs, sleepMs, drainStart>>
    ELSE /\ pc' = [pc EXCEPT ![l] = "sleep"]
         /\ sleepMs' = [sleepMs EXCEPT ![l] = POLL_INTERVAL_MS]
         /\ phase' = [phase EXCEPT ![l] = "intake"]
         /\ cur' = [cur EXCEPT ![l] = NoProof]
         /\ executionQueue' = q
         /\ UNCHANGED <<proofs, toProcess, drainStart>>

Continue(l, q) ==
    IF phase[l] = "intake" THEN NextCandidate(l, q) ELSE NextQueued(l, q)

CatchCycleErrorNoBackoff(l) ==
    /\ pc' = [pc EXCEPT ![l] = "backoff"]
    /\ sleepMs' = [sleepMs EXCEPT ![l] = POLL_INTERVAL_MS]
    /\ cycleError' = TRUE
    /\ phase' = [phase EXCEPT ![l] = "intake"]
    /\ cur' = [cur EXCEPT ![l] = NoProof]
    /\ proofs' = [proofs EXCEPT ![l] = << >>]
    /\ toProcess' = [toProcess EXCEPT ![l] = << >>]
    /\ cycleClean' = FALSE
    /\ UNCHANGED <<executionQueue, drainStart>>

\* an error thrown inside the try of lines 145-176 lands in the catch of
\* lines 177-180: the locals of the cycle are gone
CatchCycleError(l) ==
    /\ pc' = [pc EXCEPT ![l] = "backoff"]
    /\ sleepMs' = [sleepMs EXCEPT ![l] = POLL_INTERVAL_MS * 2]
    /\ cycleError' = TRUE
    /\ phase' = [phase EXCEPT ![l] = "intake"]
    /\ cur' = [cur EXCEPT ![l] = NoProof]
    /\ proofs' = [proofs EXCEPT ![l] = << >>]
    /\ toProcess' = [toProcess EXCEPT ![l] = << >>]
    /\ cycleClean' = FALSE
    /\ UNCHANGED <<executionQueue, drainStart>>

LoopTopIgnoresStop(l) ==
    /\ pc' = [pc EXCEPT ![l] = "poll"]
    /\ sleepMs' = [sleepMs EXCEPT ![l] = 0]
    /\ cycleRejected' = {}
    /\ cycleError' = FALSE
    /\ drainStart' = NoDrain
    /\ drainLog' = << >>
    /\ evals' = [id \in ProofIds |-> 0]
    /\ cycleClean' = TRUE
    /\ atPoll' = [queued |-> {}, succ |-> [id \in ProofIds |-> 0]]

\* while (this.isRunning), line 144, after a sleep
LoopTop(l) ==
    /\ pc' = [pc EXCEPT ![l] = IF isRunning THEN "poll" ELSE "done"]
    /\ sleepMs' = [sleepMs EXCEPT ![l] = 0]
    /\ cycleRejected' = {}
    /\ cycleError' = FALSE
    /\ drainStart' = NoDrain
    /\ drainLog' = << >>
    /\ evals' = [id \in ProofIds |-> 0]
    /\ cycleClean' = TRUE
    /\ atPoll' = [queued |-> {}, succ |-> [id \in ProofIds |-> 0]]


(***************************************************************************)
(* monitorAndExecute (lines 140-182)                                       *)
(***************************************************************************)
\* lines 141-149: the call sets isRunning, enters the while loop and parks
\* in mockFetchProofs' sleep(500)
MonitorStart(l) ==
    /\ pc[l] = "idle"
    /\ isRunning' = TRUE
    /\ pc' = [pc EXCEPT ![l] = "poll"]
    /\ UNCHANGED <<processedProofs, executionQueue, stats, now>>
    /\ UNCHANGED <<phase, proofs, toProcess, cur, feeData, sleepMs>>
    /\ UNCHANGED <<envVars, histVars, runVars, fnVars>>

\* line 203: mockProofs.filter(p => !this.processedProofs.has(p.intentHash))
FetchPendingProofs(mockProofs, processed) ==
    SelectSeq(mockProofs, LAMBDA id : id \notin processed)

PolledSleepsWhenEmpty(l, mockProofs) ==
    /\ pc[l] = "poll"
    /\ LET fetched == FetchPendingProofs(mockProofs, processedProofs)
       IN  IF fetched # << >>
           THEN /\ pc' = [pc EXCEPT ![l] = "validate"]
                /\ phase' = [phase EXCEPT ![l] = "intake"]
                /\ cur' = [cur EXCEPT ![l] = Head(fetched)]
                /\ proofs' = [proofs EXCEPT ![l] = Tail(fetched)]
                /\ UNCHANGED <<executionQueue, toProcess, sleepMs>>
                /\ UNCHANGED drainStart
           ELSE /\ pc' = [pc EXCEPT ![l] = "sleep"]
                /\ sleepMs' = [sleepMs EXCEPT ![l] = POLL_INTERVAL_MS]
                /\ UNCHANGED <<executionQueue, phase, cur, proofs, toProcess>>
                /\ UNCHANGED drainStart
    /\ atPoll' = [queued |-> Range(executionQueue), succ |-> succCount]
    /\ UNCHANGED <<processedProofs, stats, isRunning, now, feeData, stalls>>
    /\ UNCHANGED <<lastCall, accepted, rejected, evals, cycleClean, succCount>>
    /\ UNCHANGED <<cycleVars, stopCalled, failedIds, drainLog, fnVars>>

\* lines 149-153 and 200-203: the source answers with mockProofs; the
\* filtered list is the for loop's, an empty one leads to processQueue
Polled(l, mockProofs) ==
    /\ pc[l] = "poll"
    /\ LET fetched == FetchPendingProofs(mockProofs, processedProofs)
       IN  IF fetched # << >>
           THEN /\ pc' = [pc EXCEPT ![l] = "validate"]
                /\ phase' = [phase EXCEPT ![l] = "intake"]
                /\ cur' = [cur EXCEPT ![l] = Head(fetched)]
                /\ proofs' = [proofs EXCEPT ![l] = Tail(fetched)]
                /\ UNCHANGED <<executionQueue, toProcess, sleepMs>>
                /\ UNCHANGED drainStart
           ELSE ProcessQueue(l, executionQueue)
    /\ atPoll' = [queued |-> Range(executionQueue), succ |-> succCount]
    /\ UNCHANGED <<processedProofs, stats, isRunning, now, feeData, stalls>>
    /\ UNCHANGED <<lastCall, accepted, rejected, evals, cycleClean, succCount>>
    /\ UNCHANGED <<cycleVars, stopCalled, failedIds, drainLog, fnVars>>

\* the source answers with any candidates, within the budget of the run
PollAnswers(l) ==
    \E mockProofs \in Offers :
       /\ offered + Len(mockProofs) <= MaxOffered
       /\ offered' = offered + Len(mockProofs)
       /\ Polled(l, mockProofs)

\* lines 216-218 and 203: execution_proofs.json holds an executionProofs that
\* is no array, so that .filter throws
PollThrows(l) ==
    /\ pc[l] = "poll"
    /\ CatchCycleError(l)
    /\ UNCHANGED <<processedProofs, stats, isRunning, now, feeData, envVars>>
    /\ UNCHANGED <<lastCall, accepted, rejected, evals, atPoll, succCount>>
    /\ UNCHANGED <<atCall, cycleRejected, stopCalled, failedIds, drainLog, fnVars>>

AcceptsUnlessThrown(outcome) == outcome # "Throw"

\* line 156: if (await this.validateProof(proof))
Accepts(outcome) == outcome = "Accept"

\* lines 156-158 and 167-168: validateProof answers for the candidate
Validate(l) ==
    /\ pc[l] = "validate"
    /\ LET outcome == ValidateProof(Catalog[cur[l]], now)
       IN  /\ lastCall' = Call("validateProof", cur[l], outcome)
           /\ accepted' = IF outcome = "Accept"
                          THEN accepted \cup {cur[l]} ELSE accepted
           /\ rejected' = IF outcome \notin {"Accept", "Throw"}
                          THEN rejected \cup {cur[l]} ELSE rejected
           /\ cycleRejected' = IF outcome \notin {"Accept", "Throw"}
                               THEN cycleRejected \cup {cur[l]}
                               ELSE cycleRejected
           /\ IF outcome = "Throw"
              THEN CatchCycleError(l)
              ELSE IF Accepts(outcome)
              THEN /\ pc' = [pc EXCEPT ![l] = "timing"]
                   /\ UNCHANGED <<cycleClean, cycleError, sleepMs, drainStart>>
                   /\ UNCHANGED <<phase, proofs, toProcess, cur, executionQueue>>
              ELSE /\ NextCandidate(l, executionQueue)
                   /\ UNCHANGED <<cycleClean, cycleError>>
    /\ UNCHANGED <<processedProofs, stats, isRunning, now, feeData, envVars>>
    /\ UNCHANGED <<evals, atPoll, succCount, atCall, fnVars>>
    /\ UNCHANGED <<stopCalled, failedIds, drainLog>>

RequeueTwice(q, proof) == Append(Append(q, proof), proof)

RequeueAtFront(q, proof) == <<proof>> \o q

\* lines 164 and 453: this.executionQueue.push(proof)
Requeue(q, proof) == Append(q, proof)

(***************************************************************************)
(* determineOptimalTiming (lines 302-338), called from line 158 or 449.    *)
(* Its two reads (getFeeData, getBlockNumber) are one step: nothing is     *)
(* written between them.                                                   *)
(***************************************************************************)
\* lines 306-337: the reads answer.  On true the caller goes on to call
\* executeProof (lines 160-161, 450-451); on false it pushes the proof
\* (lines 162-166, 452-454) and its loop goes on.
TimingAnswersFrom(l, prices) ==
    /\ pc[l] = "timing"
    /\ \E gasPriceGwei \in prices, currentBlock \in BlockHeights :
          LET shouldExecute ==
                 TimingDecision(Catalog[cur[l]], gasPriceGwei, currentBlock,
                                MEV_PROTECTION_ENABLED)
          IN  /\ IF shouldExecute
                 THEN /\ lastCall' =
                            Call("determineOptimalTiming", cur[l], "pass")
                      /\ pc' = [pc EXCEPT ![l] = "exec_call"]
                      /\ UNCHANGED <<cycleClean, sleepMs, drainStart>>
                      /\ UNCHANGED <<phase, proofs, toProcess, cur>>
                      /\ UNCHANGED executionQueue
                 ELSE /\ lastCall' =
                            Call("determineOptimalTiming", cur[l], "defer")
                      /\ cycleClean' = FALSE
                      /\ Continue(l, Requeue(executionQueue, cur[l]))
              /\ drainLog' =
                    IF phase[l] = "queue"
                    THEN Append(drainLog,
                                [id |-> cur[l], gasPriceGwei |-> gasPriceGwei,
                                 shouldExecute |-> shouldExecute])
                    ELSE drainLog
    /\ evals' = [evals EXCEPT ![cur[l]] = IF phase[l] = "queue" THEN @ + 1 ELSE @]
    /\ UNCHANGED <<processedProofs, stats, isRunning, now, feeData, envVars>>
    /\ UNCHANGED <<accepted, rejected, atPoll, succCount, cycleVars, fnVars>>
    /\ UNCHANGED <<stopCalled, failedIds>>

TimingAnswers(l) == TimingAnswersFrom(l, FeePrices)

\* line 306 or 330: a read rejects; the error leaves determineOptimalTiming
\* and its caller
TimingThrows(l) ==
    /\ pc[l] = "timing"
    /\ CatchCycleError(l)
    /\ UNCHANGED <<processedProofs, stats, isRunning, now, feeData, envVars>>
    /\ UNCHANGED <<lastCall, accepted, rejected, evals, atPoll, succCount>>
    /\ UNCHANGED <<atCall, cycleRejected, stopCalled, failedIds, drainLog, fnVars>>

(***************************************************************************)
(* executeProof (lines 365-434), called from line 161 or 451               *)
(***************************************************************************)
ExecuteProofCallNotAwaited(l) ==
    /\ pc[l] = "exec_call"
    /\ processedProofs' = processedProofs \cup {Catalog[cur[l]].intentHash}
    /\ stats' = [stats EXCEPT !.proofsProcessed = @ + 1]
    /\ lastCall' = Call("executeProof", cur[l], "called")
    /\ atCall' = [atCall EXCEPT ![l] = [f |-> "executeProof", id |-> cur[l],
                                         stats |-> stats,
                                         processed |-> processedProofs]]
    /\ Continue(l, executionQueue)
    /\ UNCHANGED <<isRunning, now, feeData, envVars>>
    /\ UNCHANGED <<accepted, rejected, evals, cycleClean, atPoll, succCount>>
    /\ UNCHANGED <<cycleRejected, cycleError, fnVars>>
    /\ UNCHANGED <<stopCalled, failedIds, drainLog>>

\* lines 368-397: the call marks the identifier, counts the proof and parks
\* in getFeeData
ExecuteProofCall(l) ==
    /\ pc[l] = "exec_call"
    /\ processedProofs' = processedProofs \cup {Catalog[cur[l]].intentHash}
    /\ stats' = [stats EXCEPT !.proofsProcessed = @ + 1]
    /\ pc' = [pc EXCEPT ![l] = "exec_fee"]
    /\ lastCall' = Call("executeProof", cur[l], "called")
    /\ atCall' = [atCall EXCEPT ![l] = [f |-> "executeProof", id |-> cur[l],
                                         stats |-> stats,
                                         processed |-> processedProofs]]
    /\ UNCHANGED <<executionQueue, isRunning, now>>
    /\ UNCHANGED <<phase, proofs, toProcess, cur, feeData, sleepMs, envVars>>
    /\ UNCHANGED <<accepted, rejected, evals, cycleClean, atPoll, succCount>>
    /\ UNCHANGED <<cycleRejected, cycleError, runVars, fnVars>>

StatsOnFailureUncounts(s) ==
    [s EXCEPT !.failedExecutions = @ + 1, !.proofsProcessed = @ - 1]

StatsOnFailureChargesGas(s) ==
    [s EXCEPT !.failedExecutions = @ + 1, !.totalGasSpent = @ + GAS_ESTIMATE]

\* line 430: this.stats.failedExecutions++
StatsOnFailure(s) == [s EXCEPT !.failedExecutions = @ + 1]

MarkKept(processed, intentHash) == processed

\* line 431: this.processedProofs.delete(proof.intentHash)
MarkRolledBack(processed, intentHash) == processed \ {intentHash}

\* lines 428-433: the catch block, then the caller's loop goes on.  s is
\* this.stats as the try block left it, step the place of the error.
ExecuteProofCatchAt(l, s, step) ==
    /\ stats' = StatsOnFailure(s)
    /\ processedProofs' =
          MarkRolledBack(processedProofs, Catalog[cur[l]].intentHash)
    /\ feeData' = [feeData EXCEPT ![l] = 0]
    /\ atCall' = [atCall EXCEPT ![l] = [f |-> "failed", id |-> cur[l],
                                         step |-> step]]
    /\ cycleClean' = FALSE
    /\ Continue(l, executionQueue)
    /\ UNCHANGED <<isRunning, now, envVars>>
    /\ UNCHANGED <<lastCall, accepted, rejected, evals, atPoll, succCount>>
    /\ UNCHANGED <<cycleRejected, cycleError, stopCalled, drainLog, fnVars>>
    /\ failedIds' = failedIds \cup {cur[l]}

\* an awaited request of the try block rejects
ExecuteProofCatch(l) == ExecuteProofCatchAt(l, stats, pc[l])

\* lines 397-414: getFeeData answers; the simulated transaction is on its way
ExecFeeAnswers(l) ==
    /\ pc[l] = "exec_fee"
    /\ \E gasPriceGwei \in FeePrices :
          /\ feeData' = [feeData EXCEPT ![l] = gasPriceGwei]
          /\ cycleClean' = (cycleClean /\ ~GasTooHigh(gasPriceGwei))
    /\ pc' = [pc EXCEPT ![l] = "exec_confirm"]
    /\ UNCHANGED <<agentVars, phase, proofs, toProcess, cur, sleepMs, envVars>>
    /\ UNCHANGED <<lastCall, accepted, rejected, evals, atPoll, succCount>>
    /\ UNCHANGED <<cycleVars, runVars, fnVars>>

\* line 397: getFeeData rejects
ExecFeeThrows(l) ==
    /\ pc[l] = "exec_fee"
    /\ ExecuteProofCatch(l)

\* lines 414-426: the transaction is confirmed (getBlockNumber answers), the
\* statistics are updated, and the caller's loop goes on
StatsOnSuccessBufferedGas(s, gasPrice, proof) ==
    [s EXCEPT !.successfulExecutions = @ + 1,
              !.totalGasSpent = @ + GasWithBuffer(GAS_ESTIMATE) * gasPrice,
              !.totalMevSaved = @ + proof.mevSaved.v]

\* lines 422-424: the three updates of this.stats after the confirmation
StatsOnSuccess(s, gasPrice, proof) ==
    [s EXCEPT !.successfulExecutions = @ + 1,
              !.totalGasSpent = @ + GAS_ESTIMATE * gasPrice,
              !.totalMevSaved = @ + proof.mevSaved.v]

\* lines 422-423: the updates of this.stats made before BigInt(proof.mevSaved)
StatsBeforeMevSaved(s, gasPrice) ==
    [s EXCEPT !.successfulExecutions = @ + 1,
              !.totalGasSpent = @ + GAS_ESTIMATE * gasPrice]

\* BigInt(proof.mevSaved) of line 424 throws inside the try block, after
\* lines 422-423 have run
ExecConfirmed(l) ==
    /\ pc[l] = "exec_confirm"
    /\ IF Catalog[cur[l]].mevSaved.t = "numeric"
       THEN /\ stats' = StatsOnSuccess(stats, feeData[l], Catalog[cur[l]])
            /\ succCount' = [succCount EXCEPT ![cur[l]] = @ + 1]
            /\ feeData' = [feeData EXCEPT ![l] = 0]
            /\ atCall' = [atCall EXCEPT ![l] = NoCall]
            /\ Continue(l, executionQueue)
            /\ UNCHANGED <<processedProofs, isRunning, now, envVars>>
            /\ UNCHANGED <<lastCall, accepted, rejected, evals, cycleClean>>
            /\ UNCHANGED <<atPoll, cycleRejected, cycleError, stopCalled>>
            /\ UNCHANGED <<failedIds, drainLog, fnVars>>
       ELSE ExecuteProofCatchAt(l, StatsBeforeMevSaved(stats, feeData[l]),
                                "stats")

\* line 415: getBlockNumber rejects
ExecConfirmThrows(l) ==
    /\ pc[l] = "exec_confirm"
    /\ ExecuteProofCatch(l)

(***************************************************************************)
(* The sleeps of the loop (lines 175 and 179), stop (lines 466-469) and    *)
(* the clock                                                               *)
(***************************************************************************)
\* line 175: sleep(CONFIG.POLL_INTERVAL_MS) ends
Sleep(l) ==
    /\ pc[l] = "sleep"
    /\ LoopTop(l)
    /\ UNCHANGED <<agentVars, phase, proofs, toProcess, cur, feeData>>
    /\ UNCHANGED <<envVars, lastCall, accepted, rejected, succCount, fnVars>>
    /\ UNCHANGED <<stopCalled, failedIds>>
    /\ atCall' = [atCall EXCEPT ![l] = NoCall]

\* line 179: sleep(CONFIG.POLL_INTERVAL_MS * 2) ends
Backoff(l) ==
    /\ pc[l] = "backoff"
    /\ LoopTop(l)
    /\ UNCHANGED <<agentVars, phase, proofs, toProcess, cur, feeData>>
    /\ UNCHANGED <<envVars, lastCall, accepted, rejected, succCount, fnVars>>
    /\ UNCHANGED <<stopCalled, failedIds>>
    /\ atCall' = [atCall EXCEPT ![l] = NoCall]

Stall == MAX_PROOF_AGE

\* Date.now().  The seconds of a poll interval are far below the ages the
\* code tells apart, so the model's clock stands still but for jumps of one
\* maximum age, made while a loop sleeps.
ClockAdvances ==
    /\ \E l \in Loops : pc[l] \in {"sleep", "backoff"}
    /\ stalls < MaxStalls
    /\ stalls' = stalls + 1
    /\ now' = now + Stall
    /\ UNCHANGED <<processedProofs, executionQueue, stats, isRunning>>
    /\ UNCHANGED <<offered, loopVars, histVars, runVars, fnVars>>

\* stop(), lines 466-469
Stop ==
    /\ isRunning
    /\ isRunning' = FALSE
    /\ UNCHANGED <<processedProofs, executionQueue, stats, now>>
    /\ UNCHANGED <<loopVars, envVars, histVars, fnVars>>
    /\ stopCalled' = TRUE
    /\ UNCHANGED <<failedIds, drainStart, drainLog>>

\* main's SIGINT handler, lines 494-498: agent.stop(), agent.printStats(),
\* process.exit(0).  The process ends where it stands: no continuation of a
\* pending await runs any more.
Sigint ==
    /\ \E l \in Loops : pc[l] # "exited"
    /\ isRunning' = FALSE
    /\ stopCalled' = TRUE
    /\ pc' = [l \in Loops |-> "exited"]
    /\ UNCHANGED <<processedProofs, executionQueue, stats, now>>
    /\ UNCHANGED <<phase, proofs, toProcess, cur, feeData, sleepMs>>
    /\ UNCHANGED <<envVars, histVars, fnVars>>
    /\ UNCHANGED <<failedIds, drainStart, drainLog>>

LoopStep(l) ==
    \/ MonitorStart(l)
    \/ PollAnswers(l)
    \/ PollThrows(l)
    \/ Validate(l)
    \/ TimingAnswers(l)
    \/ TimingThrows(l)
    \/ ExecuteProofCall(l)
    \/ ExecFeeAnswers(l)
    \/ ExecFeeThrows(l)
    \/ ExecConfirmed(l)
    \/ ExecConfirmThrows(l)
    \/ Sleep(l)
    \/ Backoff(l)

Next == (\E l \in Loops : LoopStep(l)) \/ Stop \/ ClockAdvances

\* One monitorAndExecute loop on an agent, as main() starts it; stop() is
\* called by the owner of the agent.
Spec == Init /\ [][Next]_vars

\* The same loop over a source whose file may also hold entries without a
\* usable mevSaved.
PollAnswersAny(l) ==
    \E mockProofs \in AnyOffers :
       /\ offered + Len(mockProofs) <= MaxOffered
       /\ offered' = offered + Len(mockProofs)
       /\ Polled(l, mockProofs)

NextAnyProofs ==
    \/ \E l \in Loops : LoopStep(l) \/ PollAnswersAny(l)
    \/ Stop
    \/ ClockAdvances

SpecAnyProofs == Init /\ [][NextAnyProofs]_vars

\* The program as main() runs it: the only caller of stop() is the SIGINT
\* handler, which ends the process.
NextMain == (\E l \in Loops : LoopStep(l)) \/ ClockAdvances \/ Sigint

SpecMain == Init /\ [][NextMain]_vars

\* Two calls of monitorAndExecute on the same agent: their cycles overlap.
InitOverlap ==
    /\ InitAgent
    /\ offered = MaxOffered - MaxOverlapOffered
    /\ pc = [l \in Loops |-> "idle"]
    /\ fnIn = NoInput
    /\ fnOut = NoOutput

SpecOverlap == InitOverlap /\ [][Next]_vars

\* One loop, with the scheduling of the event loop: a timer that was set
\* fires, and a request to the source or to the network is answered or
\* fails, so that a loop that can take a step takes one.
InitFair ==
    /\ InitAgent
    /\ offered = MaxOffered - MaxFairOffered
    /\ pc = [l \in Loops |-> IF l = 1 THEN "idle" ELSE "off"]
    /\ fnIn = NoInput
    /\ fnOut = NoOutput

Fairness == \A l \in Loops : WF_vars(LoopStep(l))

SpecFair == InitFair /\ [][Next]_vars /\ Fairness

\* The best case for a valid proof: every poll is answered and offers hA (the
\* demo proof, which passes all four rules) among its candidates, every fee
\* read is answered with a price below the ceiling, every submission is
\* confirmed, nobody stops the agent, and the loop is scheduled fairly.
SteadyOffers == {q \in Offers : "hA" \in Range(q)}

LowFeePrices == {p \in FeePrices : ~GasTooHigh(p)}

PollOffersValid(l) ==
    \E mockProofs \in SteadyOffers :
       /\ Polled(l, mockProofs)
       /\ UNCHANGED offered

SteadyStep(l) ==
    \/ MonitorStart(l)
    \/ PollOffersValid(l)
    \/ Validate(l)
    \/ TimingAnswersFrom(l, LowFeePrices)
    \/ ExecuteProofCall(l)
    \/ ExecFeeAnswers(l)
    \/ ExecConfirmed(l)
    \/ Sleep(l)
    \/ Backoff(l)

NextSteady == \E l \in Loops : SteadyStep(l)

SpecSteady ==
    Init /\ [][NextSteady]_vars /\ \A l \in Loops : WF_vars(SteadyStep(l))

(***************************************************************************)
(* Direct calls of the pure functions: validateProof, assessMEVRisk and    *)
(* determineOptimalTiming applied to arguments (and, for the timing, to    *)
(* the answers of its two reads and the risk-gating toggle of CONFIG)      *)
(* drawn from the sets below.                                              *)
(***************************************************************************)
TestSigners ==
    {Str(TRUSTED_TEE_SIGNER), Str(ToLowerCase(TRUSTED_TEE_SIGNER)),
     Str(ToUpperCase(TRUSTED_TEE_SIGNER)),
     Str([TRUSTED_TEE_SIGNER EXCEPT ![42] = "0"]), Undefined}

TestSignatures ==
    {Undefined, Str(<< >>), Str(Repeat("d", 129)), Str(Repeat("d", 130)),
     Str(<<"0", "x">> \o Repeat("d", 130))}

TestAmountsIn == {Num(-1), Num(0), Num(1), Num(10000), Num(10001), NotNumeric}

TestAmountsOut == {Num(0), Num(385), NotNumeric}

\* ages 10, 3600, 3601 and 4000 s at the instant 5000, and a timestamp ahead
\* of the clock
TestTimestamps == {4990, 1400, 1399, 1000, 5100}

TestNows == {5000, 5001}

TestProofs ==
    [intentHash : {"hT"}, timestamp : TestTimestamps, teeSigner : TestSigners,
     teeSignature : TestSignatures, amountIn : TestAmountsIn,
     amountOut : TestAmountsOut, mevSaved : {Num(23)}]

TestFeePrices == {0, 5, 49, 50, 51, 75}

TestBlockHeights == {100, 101}

\* base estimates: the one of line 392, multiples of 100 and others
TestGasEstimates == {0, 1, 99, 100, 21000, 249999, GAS_ESTIMATE, 250001}

FnInputs ==
    [f : {"validateProof"}, proof : TestProofs, now : TestNows]
    \cup
    [f : {"assessMEVRisk"},
     proof : {p \in TestProofs : /\ p.timestamp = 4990
                                 /\ p.teeSigner = Str(TRUSTED_TEE_SIGNER)
                                 /\ p.teeSignature = Str(Repeat("d", 130))
                                 /\ p.amountIn.t = "numeric"
                                 /\ p.amountOut = Num(385)}]
    \cup
    [f : {"determineOptimalTiming"},
     proof : {p \in TestProofs : /\ p.timestamp = 4990
                                 /\ p.teeSigner = Str(TRUSTED_TEE_SIGNER)
                                 /\ p.teeSignature = Str(Repeat("d", 130))
                                 /\ p.amountIn.t = "numeric"
                                 /\ p.amountOut = Num(385)},
     gasPriceGwei : TestFeePrices, currentBlock : TestBlockHeights,
     mevEnabled : BOOLEAN]
    \cup
    [f : {"gasWithBuffer"}, gasEstimate : TestGasEstimates, returned : {FALSE}]

InitFn ==
    /\ InitAgent
    /\ offered = 0
    /\ pc = [l \in Loops |-> "off"]
    /\ fnIn \in FnInputs
    /\ fnOut = NoOutput

CallValidateProof ==
    /\ fnIn.f = "validateProof"
    /\ fnOut = NoOutput
    /\ fnOut' = ValidateProof(fnIn.proof, fnIn.now)
    /\ UNCHANGED <<fnIn, agentVars, loopVars, envVars, histVars, runVars>>

CallAssessMEVRisk ==
    /\ fnIn.f = "assessMEVRisk"
    /\ fnOut = NoOutput
    /\ fnOut' = AssessMEVRisk(fnIn.proof)
    /\ UNCHANGED <<fnIn, agentVars, loopVars, envVars, histVars, runVars>>

CallDetermineOptimalTiming ==
    /\ fnIn.f = "determineOptimalTiming"
    /\ fnOut = NoOutput
    /\ fnOut' = IF TimingDecision(fnIn.proof, fnIn.gasPriceGwei,
                                  fnIn.currentBlock, fnIn.mevEnabled)
                THEN "true" ELSE "false"
    /\ UNCHANGED <<fnIn, agentVars, loopVars, envVars, histVars, runVars>>

\* line 393; the result is a number, fnIn.returned tells that it is there
CallGasWithBuffer ==
    /\ fnIn.f = "gasWithBuffer"
    /\ ~fnIn.returned
    /\ fnIn' = [fnIn EXCEPT !.returned = TRUE]
    /\ fnOut' = GasWithBuffer(fnIn.gasEstimate)
    /\ UNCHANGED <<agentVars, loopVars, envVars, histVars, runVars>>

NextFn ==
    \/ CallValidateProof
    \/ CallAssessMEVRisk
    \/ CallDetermineOptimalTiming
    \/ CallGasWithBuffer

SpecFn == InitFn /\ [][NextFn]_vars

(***************************************************************************)
(* Properties                                                              *)
(***************************************************************************)
ExecutingPcs == {"exec_fee", "exec_confirm"}

\* C1: for every proof identifier the number of successful executions over
\* the whole run is at most one (a settled identifier is never executed
\* again, neither from a later poll nor from the pending queue).
C1_AtMostOneSuccess == \A id \in ProofIds : succCount[id] <= 1

\* C2: a call of executeProof for an identifier that is already settled is a
\* no-op: it changes neither processedProofs nor any counter of stats, and
\* it does not go on to submit.
C2_SecondCallIsNoOp ==
    [][\A l \in Loops :
          (/\ pc[l] = "exec_call"
           /\ pc'[l] # "exec_call"
           /\ cur[l] \in processedProofs
           /\ succCount[cur[l]] > 0)
          => (/\ processedProofs' = processedProofs
              /\ stats' = stats
              /\ pc'[l] \notin ExecutingPcs)]_vars

\* C3: at most one execution of a proof identifier is outstanding at any
\* time, also when the cycles of two loops overlap.
C3_OneOutstandingPerId ==
    \A id \in ProofIds :
       Cardinality({l \in Loops : pc[l] \in ExecutingPcs /\ cur[l] = id}) <= 1

\* C4: once validateProof has rejected an identifier, no later call of
\* validateProof, determineOptimalTiming or executeProof is for that
\* identifier.
C4_RejectedNeverReconsidered ==
    [][lastCall' # lastCall => lastCall'.id \notin rejected]_vars

\* The four rules of the validator, stated on their own.
EqualIgnoringCase(a, b) ==
    /\ Len(a) = Len(b)
    /\ \A i \in 1..Len(a) : UpperChar(a[i]) = UpperChar(b[i])

RuleIdentity(p) ==
    /\ p.teeSigner.t = "string"
    /\ EqualIgnoringCase(p.teeSigner.v, TRUSTED_TEE_SIGNER)

RuleFreshness(p, t) == t - p.timestamp <= 3600

RuleSignature(p) ==
    /\ p.teeSignature.t = "string"
    /\ Len(p.teeSignature.v) >= 130

RuleAmounts(p) ==
    /\ p.amountIn.t = "numeric"
    /\ p.amountOut.t = "numeric"
    /\ p.amountIn.v > 0
    /\ p.amountOut.v > 0

FirstFailingRule(p, t) ==
    IF ~RuleIdentity(p) THEN "UntrustedSigner"
    ELSE IF ~RuleFreshness(p, t) THEN "Expired"
    ELSE IF ~RuleSignature(p) THEN "MalformedSignature"
    ELSE IF ~RuleAmounts(p) THEN "InvalidAmounts"
    ELSE "Accept"

C8_ReevaluatedOncePerCycle ==
    \A id \in ProofIds :
       (pc[1] = "sleep" /\ id \in Range(executionQueue)) => evals[id] = 1

\* C9: at the end of a cycle in which every fee price read was at or below
\* the ceiling and nothing failed, every proof that waited in the pending
\* queue when the cycle began is out of the queue, is in processedProofs,
\* and has been executed successfully exactly once more.
C9_DeferredExecutedOnce ==
    \A id \in ProofIds :
       (pc[1] = "sleep" /\ cycleClean /\ id \in atPoll.queued)
       => /\ id \notin Range(executionQueue)
          /\ id \in processedProofs
          /\ succCount[id] = atPoll.succ[id] + 1

\* C10: every call of executeProof comes right after a call of
\* determineOptimalTiming for the same proof that returned true, and for a
\* proof validateProof has accepted; determineOptimalTiming is called only
\* for proofs validateProof has accepted.
C10_GatesPrecedeExecution ==
    [][lastCall' # lastCall
       => /\ lastCall'.op = "executeProof"
             => /\ lastCall.op = "determineOptimalTiming"
                /\ lastCall.id = lastCall'.id
                /\ lastCall.res = "pass"
                /\ lastCall'.id \in accepted
          /\ lastCall'.op = "determineOptimalTiming"
             => lastCall'.id \in accepted]_vars

\* a proof that waited in the pending queue when the cycle began is handed
\* to executeProof by processQueue
C10_Witness ==
    /\ lastCall.op = "executeProof"
    /\ phase[1] = "queue"
    /\ pc[1] = "exec_fee"
    /\ atPoll.queued = {lastCall.id}

\* the step in which the executeProof call of loop l returns a failure
ReturnsFailure(l) ==
    /\ atCall[l].f = "executeProof"
    /\ atCall'[l].f = "failed"

\* the step in which the executeProof call of loop l returns a success
ReturnsSuccess(l) ==
    /\ atCall[l].f = "executeProof"
    /\ atCall'[l] = NoCall

\* C11: when the fee read or the confirmation fails inside executeProof, the
\* call returns (the error does not reach the catch of the loop);
\* failedExecutions is one more than before the call, the identifier is not
\* in processedProofs, and successfulExecutions, totalGasSpent and
\* totalMevSaved are what they were before the call.
C11_FailureRollsBack ==
    [][\A l \in Loops :
          (ReturnsFailure(l) /\ atCall'[l].step \in ExecutingPcs)
          => /\ pc'[l] # "backoff"
             /\ ~cycleError'
             /\ stats'.failedExecutions = atCall[l].stats.failedExecutions + 1
             /\ atCall[l].id \notin processedProofs'
             /\ stats'.successfulExecutions =
                   atCall[l].stats.successfulExecutions
             /\ stats'.totalGasSpent = atCall[l].stats.totalGasSpent
             /\ stats'.totalMevSaved = atCall[l].stats.totalMevSaved]_vars

\* the only execution so far has failed at its confirmation and its
\* identifier is not marked
C11_Witness ==
    /\ atCall[1].f = "failed"
    /\ atCall[1].step = "exec_confirm"
    /\ stats.failedExecutions = 1
    /\ stats.proofsProcessed = 1
    /\ atCall[1].id \notin processedProofs

\* C12: when executeProof succeeds, the identifier is in processedProofs,
\* successfulExecutions is one more than before the call, failedExecutions
\* is unchanged, totalGasSpent has grown by the estimated gas (250000) times
\* the fee price read during the execution, and totalMevSaved by the
\* proof's mevSaved.
C12_SuccessUpdatesStats ==
    [][\A l \in Loops :
          ReturnsSuccess(l)
          => /\ atCall[l].id \in processedProofs'
             /\ stats'.successfulExecutions =
                   atCall[l].stats.successfulExecutions + 1
             /\ stats'.failedExecutions = atCall[l].stats.failedExecutions
             /\ stats'.totalGasSpent =
                   atCall[l].stats.totalGasSpent + 250000 * feeData[l]
             /\ stats'.totalMevSaved =
                   atCall[l].stats.totalMevSaved
                   + Catalog[atCall[l].id].mevSaved.v]_vars

\* two proofs have been executed, at different fee prices
C12_Witness ==
    /\ succCount["hA"] = 1
    /\ succCount["hB"] = 1
    /\ stats.successfulExecutions = 2
    /\ stats.totalGasSpent = 250000 * 10 + 250000 * 75
    /\ stats.totalMevSaved = 28

\* C13: an identifier whose execution has succeeded stays in
\* processedProofs for the rest of the run.
C13_SettledNeverRemoved ==
    \A id \in ProofIds : succCount[id] > 0 => id \in processedProofs

C15_TotalsGrowOnlyOnSuccess ==
    [][\A l \in Loops :
          ReturnsFailure(l)
          => /\ stats'.totalGasSpent = atCall[l].stats.totalGasSpent
             /\ stats'.totalMevSaved = atCall[l].stats.totalMevSaved
             /\ stats'.successfulExecutions =
                   atCall[l].stats.successfulExecutions]_vars

\* after one success, an execution has failed at its fee read: the totals
\* are those of the one success
C15_Witness ==
    /\ atCall[1].f = "failed"
    /\ atCall[1].step = "exec_fee"
    /\ stats.successfulExecutions = 1
    /\ stats.totalGasSpent > 0
    /\ stats.totalMevSaved > 0

IntakePcs == {"validate", "timing", "exec_call", "exec_fee", "exec_confirm"}

\* C16: no candidate of the for loop of a cycle is an identifier that was
\* already settled (its execution had succeeded) when the source answered
\* the fetch of that cycle: such an identifier is filtered out, so that it
\* is neither validated nor executed again.
C16_SettledFilteredAtPoll ==
    \A l \in Loops :
       (phase[l] = "intake" /\ pc[l] \in IntakePcs)
       => atPoll.succ[cur[l]] = 0

\* C17: a rejection by validateProof changes neither processedProofs nor
\* stats and adds nothing to the pending queue, and in the rest of the cycle
\* neither determineOptimalTiming nor executeProof is called for the
\* rejected identifier.
C17_RejectedDroppedInCycle ==
    [][/\ cycleRejected' # cycleRejected /\ cycleRejected' # {}
          => /\ processedProofs' = processedProofs
             /\ stats' = stats
             /\ \/ executionQueue' = executionQueue
                \/ \E l \in Loops :
                      \* processQueue has taken the queue as it was
                      /\ phase'[l] = "queue"
                      /\ executionQueue' = << >>
                      /\ <<cur'[l]>> \o toProcess'[l] = executionQueue
       /\ (lastCall' # lastCall
           /\ lastCall'.op \in {"determineOptimalTiming", "executeProof"})
          => lastCall'.id \notin cycleRejected]_vars

SleepingPcs == {"sleep", "backoff"}

\* C18: a cycle that ends in an error sleeps twice the poll interval, and a
\* cycle without error sleeps the poll interval, whatever the cycles before
\* it did; an error leaves isRunning as it is and does not end the loop;
\* isRunning is cleared by stop() only, and the loop ends only with
\* isRunning cleared.
C18_ErrorBacksOffOnce ==
    [][\A l \in Loops :
          /\ pc'[l] \in SleepingPcs
             => sleepMs'[l] = IF cycleError' THEN POLL_INTERVAL_MS * 2
                                            ELSE POLL_INTERVAL_MS
          /\ (cycleError' /\ ~cycleError /\ pc'[l] # pc[l])
             => /\ pc'[l] = "backoff"
                /\ isRunning' = isRunning
          /\ (pc[l] = "backoff" /\ pc'[l] # "backoff")
             => pc'[l] = IF isRunning THEN "poll" ELSE "done"
          /\ (isRunning /\ ~isRunning') => pc' = pc
          /\ (pc'[l] = "done" /\ pc[l] # "done")
             => (~isRunning /\ pc[l] \in SleepingPcs)]_vars

\* the cycle in which validateProof threw is over, and a later cycle
\* without error sleeps the normal interval
C18_Witness ==
    /\ lastCall.op = "validateProof"
    /\ lastCall.res = "Throw"
    /\ pc[1] = "sleep"
    /\ sleepMs[1] = POLL_INTERVAL_MS
    /\ isRunning

\* the step in which the processing of the candidate of loop l raises an
\* error: validateProof throws, or a read of determineOptimalTiming fails
CandidateRaises(l) ==
    /\ pc[l] \in {"validate", "timing"}
    /\ cycleError'
    /\ ~cycleError

\* C19: an error raised while one candidate is processed does not end the
\* cycle: when it is raised, no further candidate of the cycle is left
\* unprocessed and no queued proof is left undrained.
C19_PerProofErrorKeepsCycle ==
    [][\A l \in Loops :
          CandidateRaises(l)
          => /\ proofs[l] = << >>
             /\ toProcess[l] = << >>
             /\ phase[l] = "queue" \/ executionQueue = << >>]_vars

\* the proofs that wait for a later cycle, as loop l holds them: the queue,
\* and during the drain the proof in hand and the rest of toProcess
Waiting(l) ==
    Range(executionQueue)
    \cup (IF phase[l] = "queue" /\ pc[l] \in IntakePcs
          THEN {cur[l]} \cup Range(toProcess[l]) ELSE {})

\* C20: a step that ends the cycle in an error changes neither
\* processedProofs nor stats, and every proof that waited for its timing is
\* in the pending queue after it.
C20_CycleErrorTouchesNothing ==
    [][\A l \in Loops :
          (cycleError' /\ ~cycleError /\ pc'[l] # pc[l])
          => /\ processedProofs' = processedProofs
             /\ stats' = stats
             /\ Waiting(l) \subseteq Range(executionQueue')]_vars

EndedPcs == {"off", "done"}

\* C21: once stop() has been called no loop begins a poll cycle, and every
\* loop eventually ends; a loop ends only after stop() has been called.
C21_StopEndsLoop ==
    /\ [][\A l \in Loops :
             /\ (pc'[l] = "poll" /\ pc[l] # "poll") => ~stopCalled
             /\ (pc'[l] = "done" /\ pc[l] # "done") => stopCalled]_vars
    /\ (stopCalled ~> (\A l \in Loops : pc[l] \in EndedPcs))

\* the loop has ended after stop(), with an execution behind it
C21_Witness ==
    /\ stopCalled
    /\ pc[1] = "done"
    /\ stats.proofsProcessed > 0

\* C22: no executeProof call begins after stop() has been called.
C22_NoExecutionAfterStop ==
    [][(lastCall' # lastCall /\ lastCall'.op = "executeProof")
       => ~stopCalled]_vars

\* C23: an execution that is under way when the stop signal arrives runs to
\* its outcome: the signal never ends the process while executeProof awaits
\* the fee data or the confirmation, the proof marked and no outcome recorded.
C23_ExecutionOutlivesSignal ==
    [][\A l \in Loops :
          (pc'[l] = "exited" /\ pc[l] # "exited") => pc[l] \notin ExecutingPcs]_vars

\* C24: a failing execution leaves the pending queue as it was (or, when the
\* failing candidate was the last one, handed over whole to processQueue), and a proof
\* whose execution failed is validated or executed again only if it stands
\* in the pending queue.
C24_FailedNotRetriedUnlessQueued ==
    [][/\ \A l \in Loops :
            ReturnsFailure(l)
            => \/ executionQueue' = executionQueue
               \/ /\ phase[l] = "intake" /\ phase'[l] = "queue"
                  /\ executionQueue' = << >>
                  /\ <<cur'[l]>> \o toProcess'[l] = executionQueue
       /\ (lastCall' # lastCall /\ lastCall'.op \in {"validateProof", "executeProof"}
            /\ lastCall'.id \in failedIds)
            => \E l \in Loops :
                  /\ phase[l] = "queue"
                  /\ lastCall'.id \in Range(<<cur[l]>> \o toProcess[l])]_vars

\* the identifiers of the proofs processQueue has timed so far in this cycle
DrainedIds == [i \in 1..Len(drainLog) |-> drainLog[i].id]

Expired(id) == now - Catalog[id].timestamp > MAX_PROOF_AGE

\* C25: processQueue applies neither the age rule nor a retry limit.  While
\* it runs, the proofs that stood in the queue when it started are exactly
\* the ones it has timed, the one it is timing and the ones still to come,
\* in that order; when it has ended, every one of them, expired or not, was
\* either handed to executeProof or put back in the queue.
C25_DrainIgnoresAge ==
    \A l \in Loops :
        /\ phase[l] = "queue"
            => /\ drainStart.called
               /\ drainStart.queue =
                      DrainedIds
                      \o (IF pc[l] = "timing" THEN <<cur[l]>> ELSE << >>)
                      \o toProcess[l]
        /\ pc[l] = "sleep"
            => /\ drainStart.called
               /\ DrainedIds = drainStart.queue
               /\ \A i \in 1..Len(drainLog) :
                      \/ drainLog[i].shouldExecute
                      \/ drainLog[i].id \in Range(executionQueue)

\* a proof older than the maximum age is executed from the pending queue
C25_Witness ==
    /\ phase[1] = "queue"
    /\ pc[1] = "exec_confirm"
    /\ Expired(cur[1])
    /\ cur[1] \in Range(drainStart.queue)

\* C26: from the first step of executeProof until its outcome is known the
\* identifier of the proof it executes is in processedProofs.
C26_MarkedThroughoutAttempt ==
    \A l \in Loops : pc[l] \in ExecutingPcs => cur[l] \in processedProofs

\* C27: when every poll offers the valid proof hA, the fee price is below the
\* ceiling and submissions are confirmed, hA is eventually executed
\* successfully, whatever else the source offers along with it.
C27_ValidProofEventuallyExecuted == <>(succCount["hA"] > 0)

\* C28: the gas budget is the base estimate times (100 + GAS_BUFFER_PERCENT)
\* divided by 100, rounded down; it is never below the base estimate, and it
\* is 300000 for the base estimate 250000.
C28_GasBudget ==
    (fnIn.f = "gasWithBuffer" /\ fnIn.returned)
    => /\ 100 * fnOut <= fnIn.gasEstimate * (100 + GAS_BUFFER_PERCENT)
       /\ 100 * (fnOut + 1) > fnIn.gasEstimate * (100 + GAS_BUFFER_PERCENT)
       /\ fnOut >= fnIn.gasEstimate
       /\ fnIn.gasEstimate = 250000 => fnOut = 300000

C28_Witness ==
    /\ fnIn.f = "gasWithBuffer"
    /\ fnIn.returned
    /\ fnIn.gasEstimate = GAS_ESTIMATE
    /\ fnOut = 300000

\* the entries of the drain's log whose timing decision was to wait
Deferred == SelectSeq(drainLog, LAMBDA e : ~e.shouldExecute)

\* C29: when processQueue has ended without an error, it has timed the
\* proofs that stood in the queue at its start, each once and in their
\* order, each against the fee price read for it; the queue holds exactly
\* the proofs whose price was above the ceiling, in their order, and the
\* others were handed to executeProof.
C29_DrainEvaluatesEachOnce ==
    \A l \in Loops :
        pc[l] = "sleep"
        => /\ Len(drainLog) = Len(drainStart.queue)
           /\ \A i \in 1..Len(drainLog) :
                  /\ drainLog[i].id = drainStart.queue[i]
                  /\ drainLog[i].shouldExecute
                        <=> drainLog[i].gasPriceGwei <= MAX_GAS_PRICE_GWEI
                  /\ drainLog[i].shouldExecute
                        => drainLog[i].id \in processedProofs \cup failedIds
           /\ executionQueue = [i \in 1..Len(Deferred) |-> Deferred[i].id]

\* a drain of two queued proofs: the first passes, the second waits
C29_Witness ==
    /\ pc[1] = "sleep"
    /\ Len(drainLog) = 2
    /\ drainLog[1].shouldExecute
    /\ ~drainLog[2].shouldExecute
    /\ executionQueue = <<drainLog[2].id>>

\* the steps of the for loop over the candidates (lines 154-168)
CandidatePcs == {"validate", "timing", "exec_call", "exec_fee", "exec_confirm"}

\* the steps of the for loop of processQueue (lines 448-455)
DrainPcs == {"timing", "exec_call", "exec_fee", "exec_confirm"}

\* C30: in a cycle without an error the phases come in the order Poll, then
\* for each candidate Validate, TimeGate and Execute or Defer, then
\* DrainPending, then Sleep: processQueue has not been called while the
\* loop polls or handles a candidate, a candidate is timed right after it
\* was accepted and executed right after its timing passed, processQueue
\* runs when no candidate is left, and the loop sleeps only after
\* processQueue was called, also when the poll returned nothing.
C30_PhaseOrder ==
    \A l \in Loops :
        /\ pc[l] = "poll"
            => /\ ~drainStart.called
               /\ proofs[l] = << >>
               /\ cur[l] = NoProof
        /\ (phase[l] = "intake" /\ pc[l] \in CandidatePcs)
            => ~drainStart.called
        /\ (phase[l] = "intake" /\ pc[l] = "timing")
            => /\ lastCall.op = "validateProof"
               /\ lastCall.id = cur[l]
               /\ lastCall.res = "Accept"
        /\ pc[l] = "exec_call"
            => /\ lastCall.op = "determineOptimalTiming"
               /\ lastCall.id = cur[l]
               /\ lastCall.res = "pass"
        /\ phase[l] = "queue"
            => /\ drainStart.called
               /\ pc[l] \in DrainPcs
               /\ proofs[l] = << >>
        /\ pc[l] = "sleep"
            => /\ drainStart.called
               /\ phase[l] = "intake"
               /\ proofs[l] = << >>
               /\ toProcess[l] = << >>

\* the first poll returned nothing, processQueue was called, the loop sleeps
C30_Witness ==
    /\ pc[1] = "sleep"
    /\ lastCall.op = "none"
    /\ stats.proofsProcessed = 0
    /\ drainStart = [called |-> TRUE, queue |-> << >>]

\* C31: every execution attempt adds one to proofsProcessed and one to
\* exactly one of successfulExecutions and failedExecutions: the attempts
\* counted are the successes, the failures and the calls in progress.
C31_ProcessedIsSuccessPlusFailure ==
    stats.proofsProcessed =
       stats.successfulExecutions + stats.failedExecutions
       + Cardinality({l \in Loops : pc[l] \in ExecutingPcs})

\* C32: the pending queue never holds two entries with the same identifier.
C32_QueueHoldsNoDuplicates == NoDuplicates(executionQueue)

\* the pending proofs after a step of loop l are q: they stand in the queue,
\* or the step has gone on into processQueue, which took them all
PendingAfter(l, q) ==
    \/ executionQueue' = q
    \/ /\ phase[l] = "intake" /\ phase'[l] = "queue"
       /\ executionQueue' = << >>
       /\ <<cur'[l]>> \o toProcess'[l] = q

\* C33: a step in which validateProof or determineOptimalTiming answers or
\* throws leaves processedProofs and stats as they were; it leaves the
\* pending proofs as they were too, but for a deferral, which appends the
\* deferred proof once.
C33_ChecksLeaveStateAlone ==
    [][\A l \in Loops :
          (pc[l] \in {"validate", "timing"}
           /\ (pc'[l] # pc[l] \/ lastCall' # lastCall))
          => /\ processedProofs' = processedProofs
             /\ stats' = stats
             /\ IF lastCall' # lastCall /\ lastCall'.res = "defer"
                THEN PendingAfter(l, Append(executionQueue, cur[l]))
                ELSE PendingAfter(l, executionQueue)]_vars

\* after a successful execution a proof is deferred: it waits in the queue
C33_Witness ==
    /\ lastCall.op = "determineOptimalTiming"
    /\ lastCall.res = "defer"
    /\ executionQueue = <<lastCall.id>>
    /\ stats.successfulExecutions = 1
    /\ processedProofs # {}

\* C34: a loop has an executeProof call in progress exactly while it waits
\* inside that call, for the proof it is handling: the loop does not go on
\* to another candidate or queued proof before the call has returned.  The
\* proof executed is the candidate just timed or, in processQueue, the
\* queued proof just timed, and processQueue runs after the candidates.
C34_OneExecutionAtATime ==
    \A l \in Loops :
        /\ atCall[l].f = "executeProof" <=> pc[l] \in ExecutingPcs
        /\ pc[l] \in ExecutingPcs
            => /\ atCall[l].id = cur[l]
               /\ lastCall.op = "executeProof"
               /\ lastCall.id = cur[l]
               /\ phase[l] = "intake" => ~drainStart.called
               /\ phase[l] = "queue"
                    => /\ drainLog # << >>
                       /\ drainLog[Len(drainLog)].id = cur[l]
                       /\ drainLog[Len(drainLog)].shouldExecute

\* a candidate was executed, then a queued proof is being executed
C34_Witness ==
    /\ phase[1] = "queue"
    /\ pc[1] = "exec_confirm"
    /\ stats.proofsProcessed = 2
    /\ stats.successfulExecutions = 1
    /\ cur[1] \notin failedIds

\* C35: the fee price read inside executeProof and used for totalGasSpent
\* is at most the ceiling of 50 gwei: a successful execution adds at most
\* 250000 * 50 to totalGasSpent.
C35_SuccessAccountedWithinCeiling ==
    [][\A l \in Loops :
          ReturnsSuccess(l)
          => /\ feeData[l] <= MAX_GAS_PRICE_GWEI
             /\ stats'.totalGasSpent
                   <= stats.totalGasSpent + 250000 * 50]_vars

=============================================================================
